---- MODULE Spec2Model ----
(***************************************************************************)
(* Model of the Daubechies-wavelet basis set BF_DbWavelets (VES module):   *)
(* its constructor (order, grid size, reported GRID_SIZE keyword, the      *)
(* intrinsic interval) and its evaluator getAllValues, run statement by    *)
(* statement by several independent callers.                               *)
(*                                                                         *)
(* Real numbers are exact rationals.  A double is a pair <<n, d>> in       *)
(* lowest terms with d > 0; <<0, 0>> is an entry nobody has written yet.   *)
(* The local coordinate x of a translate is kept as the numerator of a     *)
(* fraction over the interval width (max - min).                           *)
(***************************************************************************)
EXTENDS Integers, Sequences, FiniteSets, TLC

\* ------------------------------------------------------------------ bounds
MaxOrder == 2
ArgMargin == 2
MaxGridOrder == 4
MaxGridRequest == 1000

\* ------------------------------------------------------- program constants
DefaultGridSize == 1000
UIntHalf == 65536

Callers == {"a", "b"}
Intervals == {<<0, 8>>, <<1, 3>>}
UserGridSizes == {6}
SizeSlack == {-1, 1}
OffGridBehaviours ==
  { [abort |-> TRUE,  val |-> 0, der |-> 0],
    [abort |-> FALSE, val |-> 0, der |-> 0],
    [abort |-> FALSE, val |-> 9, der |-> 4] }

VARIABLES ao, phase, order, nbasis, gridsize, nbin, offGrid, keywordList,
          intrinsicMax, calls

vars == <<ao, phase, order, nbasis, gridsize, nbin, offGrid, keywordList,
          intrinsicMax, calls>>

\* --------------------------------------------------------------- rationals
RECURSIVE GCD(_, _)
GCD(a, b) == IF b = 0 THEN a ELSE GCD(b, a % b)

Abs(n) == IF n < 0 THEN -n ELSE n

Rat(n, d) == LET g == GCD(Abs(n), d) IN <<n \div g, d \div g>>

Zero == <<0, 1>>
One == <<1, 1>>
Unset == <<0, 0>>

\* ------------------------------------------------------ unsigned / signed
\* A 32-bit unsigned int is the pair <<high half, low half>> of its 16-bit
\* halves, so that differences wrap exactly as they do in the program.
U32(n) == <<n \div UIntHalf, n % UIntHalf>>

FromU32(u) == u[1] * UIntHalf + u[2]

USub(a, b) ==
  LET lo == a[2] - b[2]
      borrow == IF lo < 0 THEN 1 ELSE 0
  IN <<(a[1] - b[1] - borrow) % UIntHalf, lo % UIntHalf>>

\* conversion of an unsigned int to int (two's complement)
ToInt(u) ==
  (IF u[1] >= UIntHalf \div 2 THEN u[1] - UIntHalf ELSE u[1]) * UIntHalf + u[2]

\* ------------------------------------------------------------ constructor
ActionOptions(orders, sizes) ==
  [ORDER : orders, GRID_SIZE : sizes, interval : Intervals]

NumberOfBasisFunctions(N) == FromU32(USub(U32(N * 3), U32(1)))

SupportWidth(N) == 2 * N - 1

Construct ==
  /\ phase = "new"
  /\ order' = ao.ORDER
  /\ nbasis' = NumberOfBasisFunctions(ao.ORDER)
  /\ gridsize' = IF ao.GRID_SIZE = {} THEN DefaultGridSize
                 ELSE CHOOSE g \in ao.GRID_SIZE : TRUE
  /\ nbin' = SupportWidth(ao.ORDER)
  /\ \E b \in OffGridBehaviours : offGrid' = b
  /\ phase' = "building"
  /\ UNCHANGED <<ao, keywordList, intrinsicMax, calls>>

SetupGridStep ==
  /\ phase = "building"
  /\ nbin < gridsize
  /\ nbin' = nbin * 2
  /\ UNCHANGED <<ao, phase, order, nbasis, gridsize, offGrid, keywordList,
                 intrinsicMax, calls>>

\* mutant: the requested size is taken for the size of the grid
TrueGridSize_Requested == gridsize

TrueGridSize == nbin

ReportedKeywords(true_gridsize) ==
  IF true_gridsize # 1000 THEN {true_gridsize} ELSE {}

FinishConstruct ==
  /\ phase = "building"
  /\ nbin >= gridsize
  /\ keywordList' = ReportedKeywords(TrueGridSize)
  /\ intrinsicMax' = nbasis - 1
  /\ phase' = "ready"
  /\ UNCHANGED <<ao, order, nbasis, gridsize, nbin, offGrid, calls>>

\* ---------------------------------------------------- interval and table
intervalMin == ao.interval[1]
intervalMax == ao.interval[2]

\* intervalDerivf() = ScaleNum / ScaleDen
ScaleNum == intrinsicMax
ScaleDen == intervalMax - intervalMin

GridIndex(xs) == (xs * nbin) \div (ScaleDen * SupportWidth(order))

InGrid(xs) == xs >= 0 /\ xs < SupportWidth(order) * ScaleDen

GridValue(idx) == ((idx * 5 + order) % 7) + 1
GridDeriv(idx) == ((idx + nbin) % 5) - 2

getValueAndDerivatives(xs) ==
  IF InGrid(xs)
  THEN [ok |-> TRUE, val |-> GridValue(GridIndex(xs)),
        der |-> GridDeriv(GridIndex(xs))]
  ELSE [ok |-> ~offGrid.abort, val |-> offGrid.val, der |-> offGrid.der]

\* ---------------------------------------------------------------- evaluator
Idle == [pc |-> "idle", arg |-> 0, argT |-> 0, inside |-> TRUE, i |-> 0,
         k |-> 0, x |-> 0, values |-> <<>>, derivs |-> <<>>, looked |-> {}]

Arguments == (intervalMin - ArgMargin) .. (intervalMax + ArgMargin)

Fresh(n) == [j \in 1..n |-> Unset]

Called(arg, sv, sd) ==
  [Idle EXCEPT !.pc = "called", !.arg = arg,
               !.values = Fresh(sv), !.derivs = Fresh(sd)]

StartCall(c, arg, sv, sd) == calls' = [calls EXCEPT ![c] = Called(arg, sv, sd)]

Call(c) ==
  /\ phase = "ready"
  /\ calls[c].pc = "idle"
  /\ \E arg \in Arguments : StartCall(c, arg, nbasis, nbasis)
  /\ UNCHANGED <<ao, phase, order, nbasis, gridsize, nbin, offGrid,
                 keywordList, intrinsicMax>>

CallMissized(c) ==
  /\ phase = "ready"
  /\ calls[c].pc = "idle"
  /\ \E arg \in Arguments, dv \in SizeSlack \cup {0}, dd \in SizeSlack \cup {0} :
        /\ dv # 0 \/ dd # 0
        /\ StartCall(c, arg, nbasis + dv, nbasis + dd)
  /\ UNCHANGED <<ao, phase, order, nbasis, gridsize, nbin, offGrid,
                 keywordList, intrinsicMax>>

\* operator[] store; a store past the end of the buffer leaves the vector's
\* elements as they were
Put(seq, j, v) == IF j < Len(seq) THEN [seq EXCEPT ![j + 1] = v] ELSE seq

\* mutant: one output buffer shared by every caller
StoreEntry_Shared(cs, c, j, v, d) ==
  [z \in DOMAIN cs |->
     [cs[z] EXCEPT !.values = Put(@, j, v), !.derivs = Put(@, j, d)]]

StoreEntry(cs, c, j, v, d) ==
  [cs EXCEPT ![c].values = Put(@, j, v), ![c].derivs = Put(@, j, d)]

InsideInterval(arg) == arg >= intervalMin /\ arg <= intervalMax

ClampToInterval(arg) ==
  IF arg < intervalMin THEN intervalMin
  ELSE IF arg > intervalMax THEN intervalMax ELSE arg

EnterCall(cs, c) ==
  [StoreEntry(cs, c, 0, One, Zero) EXCEPT
     ![c].argT = ClampToInterval(cs[c].arg),
     ![c].inside = InsideInterval(cs[c].arg),
     ![c].i = 1,
     ![c].pc = "loop"]

Enter(c) ==
  /\ calls[c].pc = "called"
  /\ calls' = EnterCall(calls, c)
  /\ UNCHANGED <<ao, phase, order, nbasis, gridsize, nbin, offGrid,
                 keywordList, intrinsicMax>>

\* mutant: operands of the subtraction swapped
KOf_Swapped(i, N) == ToInt(USub(U32(N), U32(i)))

KOf(i, N) == ToInt(USub(U32(i), U32(N)))

\* mutant: the translate is shifted the wrong way
LocalX_WrongShift(arg, k) == (arg - intervalMin) * ScaleNum + k * ScaleDen

LocalX(arg, k) == (arg - intervalMin) * ScaleNum - k * ScaleDen

OutsideRange(xs) == xs < 0 \/ xs > intrinsicMax * ScaleDen

\* mutant: the looked-up derivative is stored without the scale factor
ScaleDeriv_Unscaled(d) == Rat(d, 1)

ScaleDeriv(d) == Rat(d * ScaleNum, ScaleDen)

LoopBody(cs, c) ==
  LET cl == cs[c]
      k == KOf(cl.i, order)
      xs == LocalX(cl.arg, k)
      r == getValueAndDerivatives(xs)
  IN IF OutsideRange(xs)
     THEN [StoreEntry(cs, c, cl.i, Zero, Zero) EXCEPT
             ![c].k = k, ![c].x = xs, ![c].i = cl.i + 1]
     ELSE IF r.ok
     THEN [StoreEntry(cs, c, cl.i, Rat(r.val, 1), ScaleDeriv(r.der)) EXCEPT
             ![c].k = k, ![c].x = xs, ![c].i = cl.i + 1,
             ![c].looked = @ \cup {cl.i}]
     ELSE [cs EXCEPT ![c].k = k, ![c].x = xs, ![c].pc = "aborted",
                     ![c].looked = @ \cup {cl.i}]

LoopStep(c) ==
  /\ calls[c].pc = "loop"
  /\ calls[c].i < nbasis
  /\ calls' = LoopBody(calls, c)
  /\ UNCHANGED <<ao, phase, order, nbasis, gridsize, nbin, offGrid,
                 keywordList, intrinsicMax>>

\* mutant: the out-of-range zeroing clears the values as well
ZeroOutOfRange_ValuesToo(cl) ==
  IF ~cl.inside
  THEN [cl EXCEPT !.derivs = [j \in DOMAIN cl.derivs |-> Zero],
                  !.values = [j \in DOMAIN cl.values |-> Zero]]
  ELSE cl

ZeroOutOfRange(cl) ==
  IF ~cl.inside
  THEN [cl EXCEPT !.derivs = [j \in DOMAIN cl.derivs |-> Zero]]
  ELSE cl

FinishCall(cs, c) ==
  [cs EXCEPT ![c] = [ZeroOutOfRange(@) EXCEPT !.pc = "done"]]

Finish(c) ==
  /\ calls[c].pc = "loop"
  /\ ~(calls[c].i < nbasis)
  /\ calls' = FinishCall(calls, c)
  /\ UNCHANGED <<ao, phase, order, nbasis, gridsize, nbin, offGrid,
                 keywordList, intrinsicMax>>

Release(c) ==
  /\ calls[c].pc = "done"
  /\ calls' = [calls EXCEPT ![c] = Idle]
  /\ UNCHANGED <<ao, phase, order, nbasis, gridsize, nbin, offGrid,
                 keywordList, intrinsicMax>>

\* the next store of the call goes past the end of one of its output vectors
NextStoreOutOfBounds(cl) ==
  \/ cl.pc = "called" /\ (Len(cl.values) = 0 \/ Len(cl.derivs) = 0)
  \/ /\ cl.pc = "loop"
     /\ cl.i < nbasis
     /\ (cl.i >= Len(cl.values) \/ cl.i >= Len(cl.derivs))

CrashOutOfBounds(c) ==
  /\ NextStoreOutOfBounds(calls[c])
  /\ calls' = [calls EXCEPT ![c].pc = "crashed"]
  /\ UNCHANGED <<ao, phase, order, nbasis, gridsize, nbin, offGrid,
                 keywordList, intrinsicMax>>

\* ----------------------------------------------------------- specifications
InitWith(options, callers) ==
  /\ ao \in options
  /\ phase = "new"
  /\ order = 0
  /\ nbasis = 0
  /\ gridsize = 0
  /\ nbin = 0
  /\ offGrid = [abort |-> TRUE, val |-> 0, der |-> 0]
  /\ keywordList = {}
  /\ intrinsicMax = 0
  /\ calls = [c \in callers |-> Idle]

Init == InitWith(ActionOptions(1..MaxOrder, {{}} \cup {{g} : g \in UserGridSizes}),
                 Callers)

Next ==
  \/ Construct
  \/ SetupGridStep
  \/ FinishConstruct
  \/ \E c \in DOMAIN calls : Call(c)
  \/ \E c \in DOMAIN calls : Enter(c)
  \/ \E c \in DOMAIN calls : LoopStep(c)
  \/ \E c \in DOMAIN calls : Finish(c)
  \/ \E c \in DOMAIN calls : Release(c)

Spec == Init /\ [][Next]_vars

InitSizes ==
  InitWith(ActionOptions(1..MaxOrder, {{}} \cup {{g} : g \in UserGridSizes}),
           {"a"})

NextSizes ==
  \/ Next
  \/ \E c \in DOMAIN calls : CallMissized(c)
  \/ \E c \in DOMAIN calls : CrashOutOfBounds(c)

SpecSizes == InitSizes /\ [][NextSizes]_vars

GridOrders == (1..MaxGridOrder) \cup {63}

InitGrid ==
  InitWith(ActionOptions(GridOrders, {{}} \cup {{g} : g \in 1..MaxGridRequest}),
           {})

NextGrid ==
  \/ Construct
  \/ SetupGridStep
  \/ FinishConstruct

SpecGrid == InitGrid /\ [][NextGrid]_vars /\ WF_vars(NextGrid)

\* ------------------------------------------------------------------ claims
\* The quantities the properties speak of, written out from the mathematics:
\* translate k = i - N, scale = (3N-2)/(max-min), local coordinate
\* x = (arg - min)*scale - k (kept as its numerator over max - min), and the
\* support [0, 2N-1) of the tabulated function.
Width == intervalMax - intervalMin

XNum(arg, i) == (arg - intervalMin) * (3 * order - 2) - (i - order) * Width

InSupport(xs) == 0 <= xs /\ xs < (2 * order - 1) * Width

TableValue(xs) == Rat(GridValue(GridIndex(xs)), 1)

TableDerivScaled(xs) == Rat(GridDeriv(GridIndex(xs)) * (3 * order - 2), Width)

Translates == 1 .. (3 * order - 2)

Running(cl) == cl.pc \in {"loop", "done", "aborted"}

\* the loop body has finished index i of this call
Processed(cl, i) == Running(cl) /\ i >= 1 /\ i < cl.i

\* the loop body has at least started index i of this call
Reached(cl, i) == Processed(cl, i) \/ (cl.pc = "aborted" /\ i = cl.i)

WellSized(cl) == Len(cl.values) = nbasis /\ Len(cl.derivs) = nbasis

\* C1: whenever the local coordinate of translate i lies outside the support
\* [0, 2N-1), getAllValues does no table lookup for i and leaves values[i]
\* and derivs[i] at 0.0.
C1_ZeroOutsideSupport ==
  \A c \in DOMAIN calls : \A i \in Translates :
    (Reached(calls[c], i) /\ ~InSupport(XNum(calls[c].arg, i)))
      => /\ i \notin calls[c].looked
         /\ Processed(calls[c], i)
         /\ calls[c].values[i + 1] = Zero
         /\ calls[c].derivs[i + 1] = Zero

\* C2: a call with arg strictly outside [min, max] returns, with inside_range
\* false, every deriv 0.0, and every value as the per-index rule gives it:
\* 1.0 at index 0, 0.0 outside the support, the table value inside it.
C2_OutOfRangeResult ==
  \A c \in DOMAIN calls :
    (calls[c].pc # "idle" /\ ~InsideInterval(calls[c].arg))
      => /\ calls[c].pc # "aborted"
         /\ calls[c].pc = "done" =>
              /\ calls[c].inside = FALSE
              /\ \A j \in DOMAIN calls[c].derivs : calls[c].derivs[j] = Zero
              /\ calls[c].values[1] = One
              /\ \A i \in Translates :
                   calls[c].values[i + 1] =
                     IF InSupport(XNum(calls[c].arg, i))
                     THEN TableValue(XNum(calls[c].arg, i)) ELSE Zero

\* C3: for arg inside [min, max] and a translate i whose local coordinate x
\* is inside the support, getAllValues sets values[i] to the tabulated value
\* at x and derivs[i] to the tabulated derivative at x times scale.
C3_InSupportLookup ==
  \A c \in DOMAIN calls : \A i \in Translates :
    (Processed(calls[c], i) /\ InsideInterval(calls[c].arg)
       /\ InSupport(XNum(calls[c].arg, i)))
      => /\ calls[c].values[i + 1] = TableValue(XNum(calls[c].arg, i))
         /\ calls[c].derivs[i + 1] = TableDerivScaled(XNum(calls[c].arg, i))

C3_Witness ==
  \E c \in DOMAIN calls : \E i \in Translates :
    /\ calls[c].pc = "done"
    /\ InsideInterval(calls[c].arg)
    /\ InSupport(XNum(calls[c].arg, i))
    /\ calls[c].derivs[i + 1] # Zero
    /\ calls[c].derivs[i + 1][2] # 1

\* index of the loop iteration a call executed last
LastIndex(cl) == IF cl.pc = "aborted" THEN cl.i ELSE cl.i - 1

C5_ConstantFunction ==
  \A c \in DOMAIN calls :
    Running(calls[c]) => calls[c].values[1] = One /\ calls[c].derivs[1] = Zero

C5_Witness ==
  \E c \in DOMAIN calls :
    /\ calls[c].pc = "done"
    /\ ~InsideInterval(calls[c].arg)
    /\ \E i \in Translates : calls[c].values[i + 1] # Zero
    /\ calls[c].values[1] = One

\* C6: after construction the actual grid size is recorded under GRID_SIZE
\* whenever it differs from the requested grid size.
C6_RecordedWhenDifferent ==
  (phase = "ready" /\ nbin # gridsize) => nbin \in keywordList

RECURSIVE IsPowerOfTwo(_)
IsPowerOfTwo(n) ==
  IF n = 1 THEN TRUE ELSE IF n % 2 = 1 THEN FALSE ELSE IsPowerOfTwo(n \div 2)

\* g = (2N-1)*2^n for the smallest n >= 0 with (2N-1)*2^n >= r
SmallestDyadic(g, N, r) ==
  /\ g % (2 * N - 1) = 0
  /\ IsPowerOfTwo(g \div (2 * N - 1))
  /\ g >= r
  /\ g > 2 * N - 1 => g \div 2 < r

GridSizeReported ==
  phase = "ready" =>
    /\ SmallestDyadic(nbin, order, gridsize)
    /\ keywordList \subseteq {nbin}
    /\ nbin # DefaultGridSize => keywordList = {nbin}
    /\ (order = 4 /\ gridsize = 1000) => nbin = 1792

\* C7: the grid size reported after construction is (2N-1)*2^n for the
\* smallest n with (2N-1)*2^n >= R (N=4, R=1000 gives 1792), and the
\* refinement loop reaches it: construction always completes.
C7_TrueGridSize == [](GridSizeReported) /\ <>(phase = "ready")

C7_Witness ==
  /\ phase = "ready"
  /\ order = 4
  /\ gridsize = 1000
  /\ nbin = 1792
  /\ keywordList = {1792}

Written(seq) == {j \in DOMAIN seq : seq[j] # Unset}

\* C8: a call whose values or derivs array is not of size 3N-1 fails before
\* writing any entry, and a call that returns has written all 3N-1 entries
\* of both arrays.
C8_NoPartialResults ==
  \A c \in DOMAIN calls :
    /\ (calls[c].pc # "idle" /\ ~WellSized(calls[c]))
         => /\ calls[c].pc \in {"called", "crashed"}
            /\ Written(calls[c].values) = {}
            /\ Written(calls[c].derivs) = {}
    /\ calls[c].pc = "done"
         => /\ Written(calls[c].values) = 1 .. nbasis
            /\ Written(calls[c].derivs) = 1 .. nbasis

\* the call run on its own, from entry to return (or to its abort)
RECURSIVE RunLoop(_)
RunLoop(cs) ==
  IF cs["alone"].pc # "loop" THEN cs
  ELSE IF cs["alone"].i < nbasis THEN RunLoop(LoopBody(cs, "alone"))
  ELSE FinishCall(cs, "alone")

RunAlone(arg) ==
  RunLoop(EnterCall([z \in {"alone"} |-> Called(arg, nbasis, nbasis)],
                    "alone"))["alone"]

BasisSetState ==
  <<ao, phase, order, nbasis, gridsize, nbin, offGrid, keywordList,
    intrinsicMax>>

Returned(cl) == cl.pc \in {"done", "aborted"}

\* C9: the tabulated function and the rest of the basis set are built once,
\* before any evaluation, and no step of getAllValues changes them; every
\* call, however interleaved with the others, ends with the argT,
\* inside_range, values and derivs it has when run alone.
C9_Isolation ==
  /\ [][(\E c \in DOMAIN calls : calls[c].pc # "idle" \/ calls'[c].pc # "idle")
          => (phase = "ready" /\ UNCHANGED BasisSetState)]_vars
  /\ [](\A c \in DOMAIN calls :
          Returned(calls[c]) => calls[c] = RunAlone(calls[c].arg))

C9_Witness ==
  \E c, d \in DOMAIN calls :
    /\ c # d
    /\ calls[c].pc = "done"
    /\ calls[d].pc = "loop"
    /\ calls[d].i > 1
    /\ calls[c].arg # calls[d].arg
    /\ calls[c].looked # {}

\* C10: two translates give the same value wherever their local coordinates
\* agree: index i at arg and index j at arg + (j - i)/scale, inside the
\* interval or not.
C10_ShiftInvariance ==
  \A c, d \in DOMAIN calls : \A i, j \in Translates :
    (Processed(calls[c], i) /\ Processed(calls[d], j)
       /\ (calls[d].arg - calls[c].arg) * (3 * order - 2) = (j - i) * Width)
      => calls[c].values[i + 1] = calls[d].values[j + 1]

C10_Witness ==
  \E c, d \in DOMAIN calls : \E i, j \in Translates :
    /\ i # j
    /\ calls[c].pc = "done" /\ calls[d].pc = "done"
    /\ (calls[d].arg - calls[c].arg) * (3 * order - 2) = (j - i) * Width
    /\ ~InsideInterval(calls[d].arg)
    /\ InsideInterval(calls[c].arg)
    /\ calls[c].values[i + 1] # Zero

====
